---------------------------- MODULE Spec2Model ----------------------------
(***************************************************************************)
(* TasKvox AI: campaign ingestion, the outbound call dispatcher and the    *)
(* two webhook reconcilers, as a state machine over the relational store.  *)
(*                                                                         *)
(* Text values (phone numbers, form fields, csv cells) are sequences of    *)
(* one-character strings; Python's None is the reserved one-element        *)
(* sequence <<"<None>">>, which no text equals.                            *)
(***************************************************************************)
EXTENDS Integers, Sequences, FiniteSets, TLC

\* ------------------------------------------------------------------ bounds
\* Campaign rows ever created in one behaviour.
MaxCampaigns == 2
\* Rows of an upload in the full specification.
MaxRows == 2
\* Conversation rows ever created in one behaviour of the full specification.
MaxConversations == 2
\* Rows of an upload in the ingestion specification.
MaxIngestRows == 2
\* Turns of a transcript in the transcript specification.
MaxTurns == 2
\* Conversation rows of a table in the statistics specification.
MaxStatRows == 3
\* The websockets opened to the monitoring endpoint.
MaxSockets == 3

\* ------------------------------------------------------- program constants
\* launch_campaign: .limit(5)
LaunchLimit == 5
\* Conversation.phone_number = Column(String(20))
PhoneColumnLen == 20

\* --------------------------------------------------------------- text, None
None == <<"<None>">>
\* NULL of a nullable integer or identifier column
NULL == -1

Whitespace == {" "}

\* A Python value's truth: None and the empty string are false.
Truthy(s) == s # None /\ s # <<>>

\* str(x): None prints as the four letters "None".
PyStr(x) == IF x = None THEN <<"N", "o", "n", "e">> ELSE x

RECURSIVE LStrip(_)
LStrip(s) == IF s # <<>> /\ Head(s) \in Whitespace THEN LStrip(Tail(s)) ELSE s

RECURSIVE RStrip(_)
RStrip(s) ==
    IF s # <<>> /\ s[Len(s)] \in Whitespace
    THEN RStrip(SubSeq(s, 1, Len(s) - 1))
    ELSE s

\* str.strip()
Strip(s) == RStrip(LStrip(s))

Nan == <<"n", "a", "n">>
Phone5 == <<"5">>
Phone7 == <<"7">>
\* A 21-character number, one more than the column holds.
LongPhone == [i \in 1..(PhoneColumnLen + 1) |-> "5"]

\* ---------------------------------------------------------- static tables
\* users and agents rows present in the store (agents.py cannot create an
\* Agent against models.py; the rows predate it).
UserIds == {1, 2}
AgentIds == {1, 2, 3}
\* Agent.user_id, Agent.external_agent_id (NULL: not linked to the provider)
agents ==
    [a \in AgentIds |->
        CASE a = 1 -> [user_id |-> 1, external_agent_id |-> 101]
          [] a = 2 -> [user_id |-> 2, external_agent_id |-> 102]
          [] a = 3 -> [user_id |-> 1, external_agent_id |-> NULL]]

VARIABLES
    users,              \* user id -> [voice_api_key: BOOLEAN]
    campaigns,          \* campaign id -> Campaign row (live rows only)
    conversations,      \* conversation id -> Conversation row (live rows only)
    nextCampaignId,     \* campaigns.id sequence
    nextConversationId, \* conversations.id sequence
    clock,              \* transaction timestamps (server_default=func.now())
    launches,           \* campaign id -> the launch request suspended in its loop
    providerRequests,   \* conversation id -> call-initiation requests sent for it
    nextProviderId,     \* the provider's conversation id sequence
    last,               \* the last request handled, with its response
    active_connections, \* ConnectionManager.active_connections: list of websockets
    user_connections,   \* ConnectionManager.user_connections: user id -> list
    handlers            \* websocket -> the websocket_endpoint call serving it

vars == <<users, campaigns, conversations, nextCampaignId, nextConversationId,
          clock, launches, providerRequests, nextProviderId, last,
          active_connections, user_connections, handlers>>

\* The monitoring module's connection registry and its handlers.
registry == <<active_connections, user_connections, handlers>>

\* ------------------------------------------------------------- row helpers
Min(a, b) == IF a <= b THEN a ELSE b

\* f with key k bound to v (insert or overwrite)
Put(f, k, v) == [x \in DOMAIN f \cup {k} |-> IF x = k THEN v ELSE f[x]]

\* f without the keys in S
Drop(f, S) == [x \in DOMAIN f \ S |-> f[x]]

ConversationsOf(cid) == {i \in DOMAIN conversations : conversations[i].campaign_id = cid}

\* models.Campaign(...) with its column defaults
NewCampaign(u, a) ==
    [user_id |-> u, agent_id |-> a, status |-> "pending", total_contacts |-> 0,
     completed_calls |-> 0, successful_calls |-> 0, failed_calls |-> 0]

\* models.Conversation(...) as create_campaign_form builds it
NewConversation(u, a, cid, phone, name, status, t) ==
    [user_id |-> u, agent_id |-> a, campaign_id |-> cid,
     external_conversation_id |-> NULL, phone_number |-> phone,
     contact_name |-> name, status |-> status, duration_seconds |-> NULL,
     transcript |-> None, created_at |-> t]

\* ----------------------------------------------------------- ingestion
\* An upload after csv.DictReader: the file name's suffix, whether the bytes
\* decode as utf-8, the header, and one record per data row (a field the row
\* is too short for reads None).
HasColumn(file, col) == \E i \in 1..Len(file.fieldnames) : file.fieldnames[i] = col

\* phone_number = str(row.get('phone_number', '')).strip()
RowPhone(row) == Strip(PyStr(row.phone_number))

\* contact_name = str(row.get('name', '')).strip() if 'name' in row else None;
\* stored as contact_name if contact_name else None
RowName(file, row) ==
    IF HasColumn(file, "name")
    THEN (IF Strip(PyStr(row.name)) # <<>> THEN Strip(PyStr(row.name)) ELSE None)
    ELSE None

\* if phone_number and phone_number != 'nan'
RowAcceptedSkipsEmptyOnly(row) == RowPhone(row) # <<>>
RowAccepted(row) == RowPhone(row) # <<>> /\ RowPhone(row) # Nan

RECURSIVE AcceptedRows(_)
AcceptedRows(rows) ==
    IF rows = <<>> THEN <<>>
    ELSE (IF RowAccepted(Head(rows)) THEN <<Head(rows)>> ELSE <<>>)
         \o AcceptedRows(Tail(rows))

\* The INSERT of a phone number longer than the column is refused by the
\* store (PostgreSQL, database.py) when the session flushes.
FitsColumn(phone) == Len(phone) <= PhoneColumnLen

\* The checks made before anything is written: the .csv suffix, the agent
\* looked up under the caller, the utf-8 decode, the phone_number column.
ValidationErrorWithoutColumnCheck(u, agent_id, file) ==
    IF ~file.csv_suffix THEN "error_not_csv"
    ELSE IF ~(agent_id \in AgentIds /\ agents[agent_id].user_id = u)
    THEN "error_agent_not_found"
    ELSE IF ~file.decodable THEN "error_exception"
    ELSE "ok"

ValidationError(u, agent_id, file) ==
    IF ~file.csv_suffix THEN "error_not_csv"
    ELSE IF ~(agent_id \in AgentIds /\ agents[agent_id].user_id = u)
    THEN "error_agent_not_found"
    ELSE IF ~file.decodable THEN "error_exception"
    ELSE IF ~HasColumn(file, "phone_number") THEN "error_no_phone_column"
    ELSE "ok"

CreateCampaignForm(u, agent_id, file) ==
    /\ UNCHANGED <<registry, users, launches, providerRequests, nextProviderId>>
    /\ IF ValidationError(u, agent_id, file) # "ok"
       THEN /\ last' = [op |-> "create", user |-> u, agent_id |-> agent_id, file |-> file,
                        result |-> ValidationError(u, agent_id, file), campaign_id |-> NULL]
            /\ UNCHANGED <<campaigns, conversations, nextCampaignId, nextConversationId, clock>>
       ELSE LET cid == nextCampaignId
                acc == AcceptedRows(file.rows)
                n == Len(acc)
                t == clock + 1
                fits == \A i \in 1..n : FitsColumn(RowPhone(acc[i]))
            IN  /\ nextCampaignId' = cid + 1
                /\ clock' = t
                /\ IF fits
                   THEN /\ campaigns' = Put(campaigns, cid,
                                            [NewCampaign(u, agent_id) EXCEPT !.total_contacts = n])
                        /\ conversations' =
                               [x \in DOMAIN conversations
                                      \cup (nextConversationId..(nextConversationId + n - 1)) |->
                                   IF x \in DOMAIN conversations THEN conversations[x]
                                   ELSE NewConversation(u, agent_id, cid,
                                            RowPhone(acc[x - nextConversationId + 1]),
                                            RowName(file, acc[x - nextConversationId + 1]),
                                            "pending", t)]
                        /\ nextConversationId' = nextConversationId + n
                        /\ last' = [op |-> "create", user |-> u, agent_id |-> agent_id,
                                    file |-> file, result |-> "created", campaign_id |-> cid]
                   ELSE \* the second commit raises; the Campaign of the first stays
                        /\ campaigns' = Put(campaigns, cid, NewCampaign(u, agent_id))
                        /\ UNCHANGED <<conversations, nextConversationId>>
                        /\ last' = [op |-> "create", user |-> u, agent_id |-> agent_id,
                                    file |-> file, result |-> "error_exception",
                                    campaign_id |-> cid]

\* ------------------------------------------------------------- dispatcher
\* The rows a query without ORDER BY returns under .limit(n): any n of the
\* matching rows (all of them when fewer match), in any order.
Selections(S, n) ==
    LET k == Min(n, Cardinality(S))
    IN  {q \in [1..k -> S] : \A i, j \in 1..k : i # j => q[i] # q[j]}

PendingOf(cid) == {i \in ConversationsOf(cid) : conversations[i].status = "pending"}

\* One more call-initiation request for conversation c, its answer awaited.
SendRequest(reqs, c) ==
    Put(reqs, c, (IF c \in DOMAIN reqs THEN reqs[c] ELSE <<>>) \o <<"in_flight">>)

\* The awaited request of conversation c is answered with outcome o.
AnswerRequest(reqs, c, o) == Put(reqs, c, [reqs[c] EXCEPT ![Len(reqs[c])] = o])

RequestsFor(c) == IF c \in DOMAIN providerRequests THEN providerRequests[c] ELSE <<>>

\* The checks of launch_campaign before it writes, in the order it makes them.
LaunchErrorWithoutContactsCheck(u, cid) ==
    IF ~(cid \in DOMAIN campaigns /\ campaigns[cid].user_id = u) THEN "404_not_found"
    ELSE IF campaigns[cid].status # "pending" THEN "400_not_pending"
    ELSE IF ~users[u].voice_api_key THEN "400_no_api_key"
    ELSE IF ~(campaigns[cid].agent_id \in AgentIds
              /\ agents[campaigns[cid].agent_id].external_agent_id # NULL)
    THEN "400_agent_not_linked"
    ELSE "ok"

LaunchErrorWithoutStatusCheck(u, cid) ==
    IF ~(cid \in DOMAIN campaigns /\ campaigns[cid].user_id = u) THEN "404_not_found"
    ELSE IF ~users[u].voice_api_key THEN "400_no_api_key"
    ELSE IF ~(campaigns[cid].agent_id \in AgentIds
              /\ agents[campaigns[cid].agent_id].external_agent_id # NULL)
    THEN "400_agent_not_linked"
    ELSE IF PendingOf(cid) = {} THEN "400_no_contacts"
    ELSE "ok"

LaunchError(u, cid) ==
    IF ~(cid \in DOMAIN campaigns /\ campaigns[cid].user_id = u) THEN "404_not_found"
    ELSE IF campaigns[cid].status # "pending" THEN "400_not_pending"
    ELSE IF ~users[u].voice_api_key THEN "400_no_api_key"
    ELSE IF ~(campaigns[cid].agent_id \in AgentIds
              /\ agents[campaigns[cid].agent_id].external_agent_id # NULL)
    THEN "400_agent_not_linked"
    ELSE IF PendingOf(cid) = {} THEN "400_no_contacts"
    ELSE "ok"

\* if successful_calls + failed_calls >= len(conversations)
BatchDone(camp, successful, failed, selected) ==
    successful + failed >= Len(selected)

\* The statistics written after the loop.
FinishedCampaignSwapped(camp, successful, failed, selected) ==
    [camp EXCEPT !.completed_calls = successful + failed,
                 !.successful_calls = failed,
                 !.failed_calls = successful,
                 !.status = IF BatchDone(camp, successful, failed, selected)
                            THEN "completed" ELSE @]
FinishedCampaignCountingOpenCalls(camp, successful, failed, selected) ==
    [camp EXCEPT !.completed_calls = successful + failed,
                 !.successful_calls =
                     Cardinality({i \in 1..Len(selected) :
                                     conversations'[selected[i]].status = "in_progress"}),
                 !.failed_calls = failed,
                 !.status = IF BatchDone(camp, successful, failed, selected)
                            THEN "completed" ELSE @]
FinishedCampaign(camp, successful, failed, selected) ==
    [camp EXCEPT !.completed_calls = successful + failed,
                 !.successful_calls = successful,
                 !.failed_calls = failed,
                 !.status = IF BatchDone(camp, successful, failed, selected)
                            THEN "completed" ELSE @]

\* campaign.status = "running", committed before the first provider call.
LaunchedStatusStillPending == "pending"
LaunchedStatus == "running"

\* launch_campaign up to its first await: the checks, status=running, the
\* commit, and the first call-initiation request sent.
LaunchCampaign(u, cid) ==
    /\ UNCHANGED <<registry, users, nextCampaignId, nextConversationId, clock, nextProviderId>>
    /\ IF LaunchError(u, cid) # "ok"
       THEN /\ last' = [op |-> "launch", user |-> u, campaign_id |-> cid,
                        result |-> LaunchError(u, cid), selected |-> <<>>]
            /\ UNCHANGED <<campaigns, conversations, launches, providerRequests>>
       ELSE \E sel \in Selections(PendingOf(cid), LaunchLimit) :
            /\ UNCHANGED conversations
            /\ IF sel = <<>>
               THEN /\ campaigns' =
                        [campaigns EXCEPT ![cid] =
                            FinishedCampaign([@ EXCEPT !.status = LaunchedStatus], 0, 0, sel)]
                    /\ UNCHANGED <<launches, providerRequests>>
                    /\ last' = [op |-> "launch", user |-> u, campaign_id |-> cid,
                                result |-> "200", selected |-> sel]
               ELSE /\ campaigns' = [campaigns EXCEPT ![cid].status = LaunchedStatus]
                    /\ launches' = Put(launches, cid,
                                       [user |-> u, selected |-> sel, idx |-> 1,
                                        successful |-> 0, failed |-> 0])
                    /\ providerRequests' = SendRequest(providerRequests, sel[1])
                    /\ last' = [op |-> "launch", user |-> u, campaign_id |-> cid,
                                result |-> "running", selected |-> sel]

\* What the awaited make_single_call comes back with: a 201 carrying the
\* provider's conversation id; a result with success False (a non-201 answer,
\* a timeout, a network error); or a result the loop body raises on.
Outcomes == {"success", "unsuccessful", "exception"}

\* After a failed call the loop goes on to the next conversation.
NextIndexStopOnFailure(l, o) == IF o = "success" THEN l.idx + 1 ELSE Len(l.selected) + 1
NextIndex(l, o) == l.idx + 1

\* launch_campaign resumed by the answer for selected[idx]: the conversation
\* is updated and committed, then the next request is sent or, after the
\* last one, the statistics are written and the request returns.
LaunchResume(cid, o) ==
    /\ cid \in DOMAIN launches
    /\ LET l == launches[cid]
           c == l.selected[l.idx]
           successful == l.successful + (IF o = "success" THEN 1 ELSE 0)
           failed == l.failed + (IF o = "success" THEN 0 ELSE 1)
           nxt == NextIndex(l, o)
       IN  /\ UNCHANGED <<registry, users, nextCampaignId, nextConversationId, clock>>
           /\ nextProviderId' = IF o = "success" THEN nextProviderId + 1 ELSE nextProviderId
           /\ IF c \notin DOMAIN conversations
              THEN \* the row was deleted meanwhile: the commit raises, the
                   \* request ends in a 500 and nothing is written
                   /\ UNCHANGED <<conversations, campaigns>>
                   /\ launches' = Drop(launches, {cid})
                   /\ providerRequests' = AnswerRequest(providerRequests, c, o)
                   /\ last' = [op |-> "launch_resume", user |-> l.user, campaign_id |-> cid,
                               conversation_id |-> c, outcome |-> o, result |-> "500",
                               selected |-> l.selected]
              ELSE /\ conversations' =
                          [conversations EXCEPT ![c] =
                              IF o = "success"
                              THEN [@ EXCEPT !.external_conversation_id = nextProviderId,
                                             !.status = "in_progress"]
                              ELSE [@ EXCEPT !.status = "failed"]]
                   /\ IF nxt <= Len(l.selected) /\ l.selected[nxt] \notin DOMAIN conversations
                      THEN \* the next row was deleted meanwhile: reading it raises
                           \* and the request ends in a 500 after this commit
                           /\ UNCHANGED campaigns
                           /\ launches' = Drop(launches, {cid})
                           /\ providerRequests' = AnswerRequest(providerRequests, c, o)
                           /\ last' = [op |-> "launch_resume", user |-> l.user,
                                       campaign_id |-> cid, conversation_id |-> c,
                                       outcome |-> o, result |-> "500",
                                       selected |-> l.selected]
                      ELSE IF nxt <= Len(l.selected)
                      THEN /\ launches' = [launches EXCEPT ![cid] =
                                              [@ EXCEPT !.idx = nxt, !.successful = successful,
                                                        !.failed = failed]]
                           /\ providerRequests' =
                                  SendRequest(AnswerRequest(providerRequests, c, o),
                                              l.selected[nxt])
                           /\ UNCHANGED campaigns
                           /\ last' = [op |-> "launch_resume", user |-> l.user,
                                       campaign_id |-> cid, conversation_id |-> c,
                                       outcome |-> o, result |-> "running",
                                       selected |-> l.selected]
                      ELSE /\ launches' = Drop(launches, {cid})
                           /\ providerRequests' = AnswerRequest(providerRequests, c, o)
                           /\ campaigns' = [campaigns EXCEPT ![cid] =
                                               FinishedCampaign(@, successful, failed,
                                                                l.selected)]
                           /\ last' = [op |-> "launch_resume", user |-> l.user,
                                       campaign_id |-> cid, conversation_id |-> c,
                                       outcome |-> o, result |-> "200",
                                       selected |-> l.selected]

\* The process serving launch_campaign dies while the request awaits the
\* provider: the request is gone, every commit it made stays, and the
\* statistics after the loop are never written.
LaunchInterrupted(cid) ==
    /\ cid \in DOMAIN launches
    /\ launches' = Drop(launches, {cid})
    /\ last' = [op |-> "launch_interrupted", user |-> launches[cid].user,
                campaign_id |-> cid, selected |-> launches[cid].selected,
                processed |-> launches[cid].idx - 1, result |-> "none"]
    /\ UNCHANGED <<registry, users, campaigns, conversations, nextCampaignId, nextConversationId,
                   clock, providerRequests, nextProviderId>>

\* --------------------------------------------------------------- settings
\* remove_api_key: the caller's voice_api_key becomes None.
RemoveApiKey(u) ==
    /\ users' = [users EXCEPT ![u].voice_api_key = FALSE]
    /\ last' = [op |-> "remove_api_key", user |-> u, result |-> "200"]
    /\ UNCHANGED <<registry, campaigns, conversations, nextCampaignId,
                   nextConversationId, clock, launches, providerRequests, nextProviderId>>

\* ------------------------------------------------------ the mapped columns
\* The attributes models.py maps on Conversation. A query that names any
\* other attribute of the class raises AttributeError when it is built.
ConversationAttributes ==
    {"id", "user_id", "agent_id", "campaign_id", "external_conversation_id",
     "phone_number", "contact_name", "status", "duration_seconds", "transcript",
     "cost", "created_at", "updated_at"}

QueryRaises(attr) == attr \notin ConversationAttributes

\* .filter(<attr> == value): the ids of the rows whose column equals value.
RowsWith(attr, value) == {i \in DOMAIN conversations : conversations[i][attr] = value}

\* .order_by(created_at.desc()).first() over the rows S: a row of S than which
\* none is newer (rows of one transaction share their timestamp).
MostRecent(S) == {i \in S : \A j \in S : conversations[j].created_at <= conversations[i].created_at}

\* ------------------------------------------------------------- int(text)
DigitChars == <<"0", "1", "2", "3", "4", "5", "6", "7", "8", "9">>
IsDigit(c) == \E d \in 1..10 : DigitChars[d] = c
DigitValue(c) == (CHOOSE d \in 1..10 : DigitChars[d] = c) - 1

RECURSIVE DigitsValue(_)
DigitsValue(s) ==
    IF s = <<>> THEN 0
    ELSE 10 * DigitsValue(SubSeq(s, 1, Len(s) - 1)) + DigitValue(s[Len(s)])

Unsigned(s) == IF s # <<>> /\ s[1] \in {"+", "-"} THEN Tail(s) ELSE s

\* int(text) succeeds on optional blanks, an optional sign and digits.
PyIntParses(text) ==
    LET body == Unsigned(Strip(text))
    IN  body # <<>> /\ \A i \in 1..Len(body) : IsDigit(body[i])

PyInt(text) ==
    LET s == Strip(text)
    IN  IF s[1] = "-" THEN 0 - DigitsValue(Unsigned(s)) ELSE DigitsValue(Unsigned(s))

\* ------------------------------------------------------- telephony hangup
\* form_data.get(name, default)
FormGet(value, default) == IF value = None THEN default ELSE value

NormalClearing == <<"NORMAL_CLEARING">>
UserBusy == <<"USER_BUSY">>
NoAnswer == <<"NO_ANSWER">>

\* completed for NORMAL_CLEARING and USER_BUSY, failed for any other cause
HangupStatusNormalOnly(cause) == IF cause = NormalClearing THEN "completed" ELSE "failed"
HangupStatus(cause) == IF cause \in {NormalClearing, UserBusy} THEN "completed" ELSE "failed"

\* int(call_duration), 0 when it raises
HangupDuration(text) == IF PyIntParses(text) THEN PyInt(text) ELSE 0

OpenStatuses == {"in_progress", "connected", "initiating"}

\* The fallback query: the conversations to the number `to` in an open status.
HangupCandidatesAnyStatus(to) == RowsWith("phone_number", to)
HangupCandidates(to) ==
    {i \in RowsWith("phone_number", to) : conversations[i].status \in OpenStatuses}

\* .order_by(created_at.desc()).first() of the fallback query
HangupFallback(to) == MostRecent(HangupCandidates(to))

Finalized(row, status, duration) ==
    [row EXCEPT !.status = status, !.duration_seconds = duration]

\* plivo_hangup_handler. With a CallUUID the first query is built on
\* Conversation.external_call_id, raises, and the handler's except returns
\* an error; without one only the fallback runs.
PlivoHangup(form) ==
    LET call_uuid == form.CallUUID
        hangup_cause == FormGet(form.HangupCause, NormalClearing)
        call_duration == FormGet(form.Duration, <<"0">>)
        to_number == form.To
        exact == IF Truthy(call_uuid) THEN RowsWith("external_call_id", call_uuid) ELSE {}
        found == IF exact # {} THEN exact
                 ELSE IF Truthy(to_number) THEN HangupFallback(to_number)
                 ELSE {}
    IN  /\ UNCHANGED <<registry, users, campaigns, nextCampaignId, nextConversationId, clock,
                       launches, providerRequests, nextProviderId>>
        /\ IF Truthy(call_uuid) /\ QueryRaises("external_call_id")
           THEN /\ UNCHANGED conversations
                /\ last' = [op |-> "hangup", form |-> form, result |-> "error",
                            conversation_id |-> NULL]
           ELSE IF found = {}
           THEN /\ UNCHANGED conversations
                /\ last' = [op |-> "hangup", form |-> form, result |-> "success",
                            conversation_id |-> NULL]
           ELSE \E c \in found :
                /\ conversations' =
                       [conversations EXCEPT ![c] =
                           Finalized(@, HangupStatus(hangup_cause),
                                     HangupDuration(call_duration))]
                /\ last' = [op |-> "hangup", form |-> form, result |-> "success",
                            conversation_id |-> c]

\* -------------------------------------------------------- transcript text
\* A turn is a record role, message, time_in_call_secs; None (NULL for the
\* time) stands for a key the turn does not have.
Newline == "\n"

RECURSIVE DigitsOf(_)
DigitsOf(n) ==
    IF n < 10 THEN <<DigitChars[n + 1]>>
    ELSE DigitsOf(n \div 10) \o <<DigitChars[(n % 10) + 1]>>

\* f"{n:02d}" for n >= 0: the decimal digits, zero-padded to two.
FormatUnpadded(n) == DigitsOf(n)
Format02d(n) == IF n < 10 THEN <<"0">> \o DigitsOf(n) ELSE DigitsOf(n)

AgentLabel == <<"A", "g", "e", "n", "t">>
CustomerLabel == <<"C", "u", "s", "t", "o", "m", "e", "r">>

\* "Agent" if role == "agent" else "Customer", role defaulting to "unknown"
Speaker(turn) == IF FormGet(turn.role, <<"unknown">>) = <<"agent">> THEN AgentLabel ELSE CustomerLabel

\* f"[{time_in_call//60:02d}:{time_in_call%60:02d}] {speaker}: {message}"
TranscriptLine(turn) ==
    LET message == FormGet(turn.message, <<>>)
        time_in_call == IF turn.time_in_call_secs = NULL THEN 0 ELSE turn.time_in_call_secs
    IN  <<"[">> \o Format02d(time_in_call \div 60) \o <<":">> \o Format02d(time_in_call % 60)
        \o <<"]", " ">> \o Speaker(turn) \o <<":", " ">> \o message

\* sep.join(parts)
RECURSIVE Join(_, _)
Join(parts, sep) ==
    IF parts = <<>> THEN <<>>
    ELSE IF Len(parts) = 1 THEN parts[1]
    ELSE parts[1] \o sep \o Join(Tail(parts), sep)

BuildTranscriptText(transcript) ==
    Join([i \in 1..Len(transcript) |-> TranscriptLine(transcript[i])], <<Newline>>)

\* ------------------------------------------------------ completion webhook
\* "completed" if call_successful == "success" else "failed"
CompletionStatus(verdict) == IF verdict = "success" THEN "completed" ELSE "failed"

\* The fallback query: the conversations of an agent with the payload's
\* external agent id, in status in_progress or connected.
CompletionCandidates(agent_id) ==
    {i \in DOMAIN conversations :
        /\ conversations[i].agent_id \in AgentIds
        /\ agents[conversations[i].agent_id].external_agent_id = agent_id
        /\ conversations[i].status \in {"in_progress", "connected"}}

\* The attribute the first query filters on: models.Conversation.external_call_id
CompletionLookupStoredId == "external_conversation_id"
CompletionLookup == "external_call_id"

\* handle_call_completion: the first query is built on
\* Conversation.external_call_id and raises; the function's own except logs
\* the error and returns, so nothing is written. "matched" is the row the
\* function updated (NULL: none).
HandleCallCompletion(data, matched) ==
    IF QueryRaises(CompletionLookup)
    THEN /\ matched = NULL
         /\ UNCHANGED conversations
    ELSE LET exact == RowsWith(CompletionLookup, data.conversation_id)
             found == IF exact # {} THEN exact
                      ELSE MostRecent(CompletionCandidates(data.agent_id))
         IN  IF found = {}
             THEN /\ matched = NULL
                  /\ UNCHANGED conversations
             ELSE /\ matched \in found
                  /\ conversations' =
                         [conversations EXCEPT ![matched] =
                             [Finalized(@, CompletionStatus(data.call_successful),
                                        data.call_duration_secs)
                                 EXCEPT !.transcript = BuildTranscriptText(data.transcript)]]

\* elevenlabs_webhook_handler. A request without the signature header raises
\* HTTPException(401) inside the try, which the handler's "except Exception"
\* turns into a 500; a body that is not JSON gives 400; the signature itself
\* is not validated.
\* How many times in a row this very request has now been delivered (1, or 2
\* for a redelivery).
Delivery(req) == IF last.op = "completion" /\ last.request = req THEN 2 ELSE 1

ElevenLabsWebhook(req) ==
    /\ UNCHANGED <<registry, users, campaigns, nextCampaignId, nextConversationId, clock,
                   launches, providerRequests, nextProviderId>>
    /\ IF ~req.signature_header
       THEN /\ UNCHANGED conversations
            /\ last' = [op |-> "completion", request |-> req, result |-> "500",
                        conversation_id |-> NULL, delivery |-> Delivery(req)]
       ELSE IF ~req.json
       THEN /\ UNCHANGED conversations
            /\ last' = [op |-> "completion", request |-> req, result |-> "400",
                        conversation_id |-> NULL, delivery |-> Delivery(req)]
       ELSE IF req.type # "post_call_transcription"
       THEN /\ UNCHANGED conversations
            /\ last' = [op |-> "completion", request |-> req, result |-> "200",
                        conversation_id |-> NULL, delivery |-> Delivery(req)]
       ELSE \E matched \in DOMAIN conversations \cup {NULL} :
            /\ HandleCallCompletion(req.data, matched)
            /\ last' = [op |-> "completion", request |-> req, result |-> "200",
                        conversation_id |-> matched, delivery |-> Delivery(req)]

\* ------------------------------------------------------------- single call
\* The single calls whose provider request is awaited: a request in flight
\* that no running launch is waiting for.
SingleCallsInFlight ==
    {c \in DOMAIN providerRequests :
        /\ providerRequests[c][Len(providerRequests[c])] = "in_flight"
        /\ \A cid \in DOMAIN launches : launches[cid].selected[launches[cid].idx] # c}

\* The checks of make_single_call before it writes, in the order it makes them.
SingleCallError(u, agent_id) ==
    IF ~(agent_id \in AgentIds /\ agents[agent_id].user_id = u) THEN "404_agent_not_found"
    ELSE IF agents[agent_id].external_agent_id = NULL THEN "400_agent_not_linked"
    ELSE IF ~users[u].voice_api_key THEN "400_no_api_key"
    ELSE "ok"

\* make_single_call up to its await: the checks, the Conversation in status
\* initiating committed, and the call-initiation request sent. A number the
\* column cannot hold makes the commit fail and the request end in a 500.
SingleCall(u, agent_id, phone) ==
    /\ UNCHANGED <<registry, users, campaigns, nextCampaignId, launches, nextProviderId>>
    /\ IF SingleCallError(u, agent_id) # "ok" \/ ~FitsColumn(phone)
       THEN /\ last' = [op |-> "single_call", user |-> u, agent_id |-> agent_id,
                        phone_number |-> phone,
                        result |-> IF SingleCallError(u, agent_id) # "ok"
                                   THEN SingleCallError(u, agent_id) ELSE "500",
                        conversation_id |-> NULL]
            /\ UNCHANGED <<conversations, nextConversationId, clock, providerRequests>>
       ELSE /\ conversations' =
                   Put(conversations, nextConversationId,
                       NewConversation(u, agent_id, NULL, phone, None, "initiating", clock + 1))
            /\ nextConversationId' = nextConversationId + 1
            /\ clock' = clock + 1
            /\ providerRequests' = SendRequest(providerRequests, nextConversationId)
            /\ last' = [op |-> "single_call", user |-> u, agent_id |-> agent_id,
                        phone_number |-> phone, result |-> "calling",
                        conversation_id |-> nextConversationId]

\* The status make_single_call writes when the provider has answered.
SingleCallStatus(row, o) == IF o = "success" THEN "in_progress" ELSE "failed"

\* make_single_call resumed by the provider's answer for conversation c: the
\* row the request holds is updated and committed whatever has happened to
\* it meanwhile; if the row is gone the commit raises and nothing is written.
SingleCallResume(c, o) ==
    /\ c \in SingleCallsInFlight
    /\ UNCHANGED <<registry, users, campaigns, nextCampaignId, nextConversationId, clock, launches>>
    /\ providerRequests' = AnswerRequest(providerRequests, c, o)
    /\ IF c \notin DOMAIN conversations
       THEN /\ UNCHANGED <<conversations, nextProviderId>>
            /\ last' = [op |-> "single_call_resume", conversation_id |-> c, outcome |-> o,
                        result |-> "500"]
       ELSE /\ conversations' =
                   [conversations EXCEPT ![c] =
                       IF o = "success"
                       THEN [@ EXCEPT !.external_conversation_id = nextProviderId,
                                      !.status = SingleCallStatus(@, o)]
                       ELSE [@ EXCEPT !.status = SingleCallStatus(@, o)]]
            /\ nextProviderId' = IF o = "success" THEN nextProviderId + 1 ELSE nextProviderId
            /\ last' = [op |-> "single_call_resume", conversation_id |-> c, outcome |-> o,
                        result |-> IF o = "success" THEN "200"
                                   ELSE IF o = "unsuccessful" THEN "400" ELSE "500"]

\* ---------------------------------------------------- manual status update
\* update_call_status. For the status completed the handler subtracts
\* created_at from datetime.now(): with a timezone-aware created_at that
\* raises and nothing is committed; with a naive one the elapsed time, here
\* the ticks of the clock since the row was created, becomes the duration.
UpdateCallStatus(u, conversation_id, status) ==
    /\ UNCHANGED <<registry, users, campaigns, nextCampaignId, nextConversationId, clock, launches,
                   providerRequests, nextProviderId>>
    /\ IF ~(conversation_id \in DOMAIN conversations
            /\ conversations[conversation_id].user_id = u)
       THEN /\ UNCHANGED conversations
            /\ last' = [op |-> "update_status", user |-> u,
                        conversation_id |-> conversation_id, status |-> status,
                        result |-> "404"]
       ELSE IF status # "completed"
       THEN /\ conversations' = [conversations EXCEPT ![conversation_id].status = status]
            /\ last' = [op |-> "update_status", user |-> u,
                        conversation_id |-> conversation_id, status |-> status,
                        result |-> "200"]
       ELSE \E aware \in BOOLEAN :
            IF aware
            THEN /\ UNCHANGED conversations
                 /\ last' = [op |-> "update_status", user |-> u,
                             conversation_id |-> conversation_id, status |-> status,
                             result |-> "500"]
            ELSE /\ conversations' =
                        [conversations EXCEPT ![conversation_id] =
                            Finalized(@, status, clock - @.created_at)]
                 /\ last' = [op |-> "update_status", user |-> u,
                             conversation_id |-> conversation_id, status |-> status,
                             result |-> "200"]

\* ---------------------------------------------------------------- deletions
\* max(0, n - 1)
Decremented(n) == IF n - 1 > 0 THEN n - 1 ELSE 0

\* The campaign's counters after one of its conversations, in the given
\* status, is deleted.
AfterConversationDeleted(camp, status) ==
    [camp EXCEPT !.completed_calls = Decremented(@),
                 !.successful_calls = IF status = "completed" THEN Decremented(@) ELSE @,
                 !.failed_calls = IF status = "failed" THEN Decremented(@) ELSE @]

\* delete_conversation
DeleteConversation(u, conversation_id) ==
    /\ UNCHANGED <<registry, users, nextCampaignId, nextConversationId, clock, launches,
                   providerRequests, nextProviderId>>
    /\ IF ~(conversation_id \in DOMAIN conversations
            /\ conversations[conversation_id].user_id = u)
       THEN /\ UNCHANGED <<campaigns, conversations>>
            /\ last' = [op |-> "delete_conversation", user |-> u,
                        conversation_id |-> conversation_id, result |-> "404"]
       ELSE LET row == conversations[conversation_id]
            IN  /\ campaigns' =
                       IF row.campaign_id # NULL /\ row.campaign_id \in DOMAIN campaigns
                       THEN [campaigns EXCEPT ![row.campaign_id] =
                                AfterConversationDeleted(@, row.status)]
                       ELSE campaigns
                /\ conversations' = Drop(conversations, {conversation_id})
                /\ last' = [op |-> "delete_conversation", user |-> u,
                            conversation_id |-> conversation_id, result |-> "200"]

\* delete_campaign: the campaign and, by the relationship's cascade, its
\* conversations.
DeleteCampaignWithoutCascade(u, cid) ==
    /\ UNCHANGED <<registry, users, nextCampaignId, nextConversationId, clock, launches,
                   providerRequests, nextProviderId, conversations>>
    /\ IF ~(cid \in DOMAIN campaigns /\ campaigns[cid].user_id = u)
       THEN /\ UNCHANGED campaigns
            /\ last' = [op |-> "delete_campaign", user |-> u, campaign_id |-> cid,
                        result |-> "404"]
       ELSE /\ campaigns' = Drop(campaigns, {cid})
            /\ last' = [op |-> "delete_campaign", user |-> u, campaign_id |-> cid,
                        result |-> "200"]

DeleteCampaign(u, cid) ==
    /\ UNCHANGED <<registry, users, nextCampaignId, nextConversationId, clock, launches,
                   providerRequests, nextProviderId>>
    /\ IF ~(cid \in DOMAIN campaigns /\ campaigns[cid].user_id = u)
       THEN /\ UNCHANGED <<campaigns, conversations>>
            /\ last' = [op |-> "delete_campaign", user |-> u, campaign_id |-> cid,
                        result |-> "404"]
       ELSE /\ campaigns' = Drop(campaigns, {cid})
            /\ conversations' = Drop(conversations, ConversationsOf(cid))
            /\ last' = [op |-> "delete_campaign", user |-> u, campaign_id |-> cid,
                        result |-> "200"]

\* --------------------------------------------------------------- statistics
\* round(num / den, 0) as Python rounds: to the nearest integer, a tie to
\* the even one (num >= 0, den > 0).
RoundHalfEven(num, den) ==
    LET q == num \div den
        r == num % den
    IN  IF 2 * r < den THEN q
        ELSE IF 2 * r > den THEN q + 1
        ELSE IF q % 2 = 0 THEN q ELSE q + 1

\* round(completed / total * 100, 2) if total > 0 else 0, in hundredths of a
\* percent: 3333 stands for 33.33.
SuccessRateAsFraction(completed, total) ==
    IF total > 0 THEN RoundHalfEven(completed * 100, total) ELSE 0
SuccessRate(completed, total) ==
    IF total > 0 THEN RoundHalfEven(completed * 10000, total) ELSE 0

CountWithStatus(rows, status) == Cardinality({i \in rows : conversations[i].status = status})

\* get_comprehensive_stats: the counts over the user's conversations created
\* between start_date and end_date.
GetComprehensiveStats(user_id, start_date, end_date) ==
    LET base_query == {i \in DOMAIN conversations :
                          /\ conversations[i].user_id = user_id
                          /\ start_date <= conversations[i].created_at
                          /\ conversations[i].created_at <= end_date}
        total_calls == Cardinality(base_query)
        completed_calls == CountWithStatus(base_query, "completed")
    IN  [total_calls |-> total_calls,
         completed_calls |-> completed_calls,
         failed_calls |-> CountWithStatus(base_query, "failed"),
         in_progress_calls |-> CountWithStatus(base_query, "in_progress"),
         success_rate |-> SuccessRate(completed_calls, total_calls)]

\* get_single_call_statistics: the counts over the user's conversations
\* without a campaign.
GetSingleCallStatistics(user_id) ==
    LET single_calls_query == {i \in DOMAIN conversations :
                                  /\ conversations[i].user_id = user_id
                                  /\ conversations[i].campaign_id = NULL}
        total_single_calls == Cardinality(single_calls_query)
        completed_single_calls == CountWithStatus(single_calls_query, "completed")
    IN  [total_single_calls |-> total_single_calls,
         completed_calls |-> completed_single_calls,
         failed_calls |-> CountWithStatus(single_calls_query, "failed"),
         success_rate |-> SuccessRate(completed_single_calls, total_single_calls)]

\* The two read-only endpoints as steps: nothing changes but the answer.
ReportsDashboard(u, start_date, end_date) ==
    /\ last' = [op |-> "stats", user |-> u, start_date |-> start_date,
                end_date |-> end_date,
                stats |-> GetComprehensiveStats(u, start_date, end_date)]
    /\ UNCHANGED <<registry, users, campaigns, conversations, nextCampaignId, nextConversationId,
                   clock, launches, providerRequests, nextProviderId>>

\* ------------------------------------------------------ monitoring sockets
\* list.remove(x): the list without its first x.
RECURSIVE RemoveFirst(_, _)
RemoveFirst(q, x) ==
    IF q = <<>> THEN <<>>
    ELSE IF Head(q) = x THEN Tail(q)
    ELSE <<Head(q)>> \o RemoveFirst(Tail(q), x)

\* ConnectionManager.connect after websocket.accept() has returned.
Connect(websocket, user_id) ==
    /\ active_connections' = Append(active_connections, websocket)
    /\ user_connections' =
           Put(user_connections, user_id,
               Append(IF user_id \in DOMAIN user_connections
                      THEN user_connections[user_id] ELSE <<>>, websocket))

\* ConnectionManager.disconnect
DisconnectKeepsEmptyKey(websocket, user_id) ==
    /\ active_connections' = RemoveFirst(active_connections, websocket)
    /\ user_connections' =
           IF user_id \in DOMAIN user_connections
           THEN [user_connections EXCEPT ![user_id] = RemoveFirst(@, websocket)]
           ELSE user_connections
Disconnect(websocket, user_id) ==
    /\ active_connections' = RemoveFirst(active_connections, websocket)
    /\ user_connections' =
           IF user_id \notin DOMAIN user_connections THEN user_connections
           ELSE IF RemoveFirst(user_connections[user_id], websocket) = <<>>
           THEN Drop(user_connections, {user_id})
           ELSE [user_connections EXCEPT ![user_id] = RemoveFirst(@, websocket)]

\* websocket_endpoint up to its loop: manager.connect, whose accept() either
\* returns, and the channel is registered, or raises, and the handler ends
\* before anything is registered.
WebsocketEndpoint(websocket, user_id, accepted) ==
    /\ websocket \notin DOMAIN handlers
    /\ IF accepted
       THEN /\ Connect(websocket, user_id)
            /\ handlers' = Put(handlers, websocket, [user_id |-> user_id, pc |-> "loop"])
            /\ last' = [op |-> "ws_connect", websocket |-> websocket,
                        user |-> user_id, result |-> "connected"]
       ELSE /\ UNCHANGED <<active_connections, user_connections>>
            /\ handlers' = Put(handlers, websocket, [user_id |-> user_id, pc |-> "ended"])
            /\ last' = [op |-> "ws_connect", websocket |-> websocket,
                        user |-> user_id, result |-> "accept_failed"]
    /\ UNCHANGED <<users, campaigns, conversations, nextCampaignId, nextConversationId,
                   clock, launches, providerRequests, nextProviderId>>

\* How one round of the update loop ends: the update is sent and the handler
\* sleeps; WebSocketDisconnect is raised; or anything else is raised (a
\* failing query, the subtraction in get_active_calls).
LoopOutcomes == {"sent", "WebSocketDisconnect", "Exception"}

\* One round of websocket_endpoint's loop. Only WebSocketDisconnect is
\* caught, and its handler calls manager.disconnect; any other exception
\* leaves the function at once.
WebsocketUpdate(websocket, outcome) ==
    /\ websocket \in DOMAIN handlers
    /\ handlers[websocket].pc = "loop"
    /\ LET user_id == handlers[websocket].user_id
       IN  /\ IF outcome = "sent"
              THEN UNCHANGED <<active_connections, user_connections, handlers>>
              ELSE IF outcome = "WebSocketDisconnect"
              THEN /\ Disconnect(websocket, user_id)
                   /\ handlers' = [handlers EXCEPT ![websocket].pc = "ended"]
              ELSE /\ UNCHANGED <<active_connections, user_connections>>
                   /\ handlers' = [handlers EXCEPT ![websocket].pc = "ended"]
           /\ last' = [op |-> "ws_update", websocket |-> websocket, user |-> user_id,
                       result |-> outcome]
    /\ UNCHANGED <<users, campaigns, conversations, nextCampaignId, nextConversationId,
                   clock, launches, providerRequests, nextProviderId>>

SingleCallStatistics(u) ==
    /\ last' = [op |-> "single_call_stats", user |-> u,
                stats |-> GetSingleCallStatistics(u)]
    /\ UNCHANGED <<registry, users, campaigns, conversations, nextCampaignId, nextConversationId,
                   clock, launches, providerRequests, nextProviderId>>

Init ==
    /\ users = [u \in UserIds |-> [voice_api_key |-> TRUE]]
    /\ campaigns = <<>>
    /\ conversations = <<>>
    /\ nextCampaignId = 1
    /\ nextConversationId = 1
    /\ clock = 0
    /\ launches = <<>>
    /\ providerRequests = <<>>
    /\ nextProviderId = 1
    /\ active_connections = <<>>
    /\ user_connections = <<>>
    /\ handlers = <<>>
    /\ last = [op |-> "none"]

\* ------------------------------------------------ ingestion specification
IngestCells == {<<>>, <<" ">>, Phone5, <<" ", "7", " ">>, Nan, LongPhone, None}

RowsUpTo(n, cells, names) ==
    UNION {[1..k -> [phone_number : cells, name : names]] : k \in 0..n}

\* Well-formed uploads: every mix of cells in the phone_number column.
IngestFiles ==
    [csv_suffix : {TRUE}, decodable : {TRUE},
     fieldnames : {<<"phone_number">>, <<"name", "phone_number">>},
     rows : RowsUpTo(MaxIngestRows, IngestCells, {None})]

\* Uploads that exercise the validation steps and the name column.
EdgeFiles ==
    [csv_suffix : BOOLEAN, decodable : BOOLEAN,
     fieldnames : {<<"name", "phone_number">>, <<"name">>},
     rows : {<<[phone_number |-> Phone5, name |-> n]>> : n \in {<<"B">>, <<" ">>}}]

\* One upload with any mix of cells arrives at the empty store.
IngestUpload ==
    /\ nextCampaignId = 1
    /\ \E file \in IngestFiles : CreateCampaignForm(1, 1, file)

\* Edge uploads arrive at any time, by any user, for the agent 1 or for an
\* agent that does not exist, until MaxCampaigns campaigns exist.
IngestEdge ==
    \E u \in UserIds, a \in {1, 4}, file \in EdgeFiles :
        CreateCampaignForm(u, a, file) /\ nextCampaignId' <= MaxCampaigns + 1

NextIngest == IngestUpload \/ IngestEdge

SpecIngest == Init /\ [][NextIngest]_vars

\* ------------------------------------------------- dispatch specification
\* Uploads of one contact and of one contact more than a launch takes.
DispatchFiles ==
    [csv_suffix : {TRUE}, decodable : {TRUE}, fieldnames : {<<"phone_number">>},
     rows : {[i \in 1..k |-> [phone_number |-> Phone5, name |-> None]] :
                k \in {1, LaunchLimit + 1}}]

DispatchUpload ==
    \E file \in DispatchFiles :
        /\ CreateCampaignForm(1, 1, file)
        /\ nextCampaignId' <= MaxCampaigns + 1
        /\ nextConversationId' <= LaunchLimit + 2

DispatchLaunch == \E cid \in 1..MaxCampaigns : LaunchCampaign(1, cid)

DispatchResume ==
    \E cid \in DOMAIN launches, o \in {"success", "unsuccessful"} : LaunchResume(cid, o)

NextDispatch == DispatchUpload \/ DispatchLaunch \/ DispatchResume

SpecDispatch == Init /\ [][NextDispatch]_vars

\* ------------------------------------------------------ full specification
\* Uploads of up to MaxRows contacts, to the numbers 5 and 7.
Files ==
    [csv_suffix : {TRUE}, decodable : {TRUE}, fieldnames : {<<"phone_number">>},
     rows : RowsUpTo(MaxRows, {Phone5, Phone7}, {None})]

\* The hangup forms: with or without a CallUUID, a normal hangup or an
\* unanswered call, to either number.
HangupForms ==
    [CallUUID : {None, <<"u">>}, HangupCause : {NormalClearing, NoAnswer},
     Duration : {<<"4", "2">>}, To : {Phone5, Phone7}]

\* The completion requests: a post_call_transcription event for a provider
\* conversation id handed out so far or the next one, and the malformed ones.
CompletionData ==
    [conversation_id : 1..nextProviderId, agent_id : {101},
     call_successful : {"success", "failure"}, call_duration_secs : {42},
     transcript : {<<>>}]

CompletionRequests ==
    [signature_header : {TRUE}, json : {TRUE}, type : {"post_call_transcription"},
     data : CompletionData]
    \cup [signature_header : BOOLEAN, json : BOOLEAN, type : {"ping"},
          data : {[conversation_id |-> 1, agent_id |-> 101,
                   call_successful |-> "success", call_duration_secs |-> 42,
                   transcript |-> <<>>]}]

Upload ==
    \E a \in {1, 3}, file \in Files :
        /\ CreateCampaignForm(1, a, file)
        /\ nextCampaignId' <= MaxCampaigns + 1
        /\ nextConversationId' <= MaxConversations + 1

Launch == \E u \in UserIds, cid \in 1..MaxCampaigns : LaunchCampaign(u, cid)

Resume == \E cid \in DOMAIN launches, o \in Outcomes : LaunchResume(cid, o)

ApiKey == RemoveApiKey(1)

Hangup == \E form \in HangupForms : PlivoHangup(form)

Completion == \E req \in CompletionRequests : ElevenLabsWebhook(req)

Next == Upload \/ Launch \/ Resume \/ ApiKey \/ Hangup \/ Completion

Spec == Init /\ [][Next]_vars

\* ---------------------------------------------------- hangup specification
\* Launched campaigns of user 1 and every kind of hangup form: each field
\* present or absent, every cause, durations that parse and that do not.
HangupCauses == {None, NormalClearing, UserBusy, NoAnswer}
HangupDurations == {None, <<" ", "4", "2">>, <<"4", ".", "5">>, <<>>}

AllHangupForms ==
    [CallUUID : {None}, HangupCause : HangupCauses, Duration : HangupDurations,
     To : {Phone5, Phone7}]
    \cup [CallUUID : {None, <<>>, <<"u">>}, HangupCause : {NormalClearing},
          Duration : {<<" ", "4", "2">>}, To : {None, Phone5, Phone7}]

HangupUpload ==
    \E file \in Files :
        /\ CreateCampaignForm(1, 1, file)
        /\ nextCampaignId' <= MaxCampaigns + 1
        /\ nextConversationId' <= MaxConversations + 1

HangupLaunch == \E cid \in 1..MaxCampaigns : LaunchCampaign(1, cid)

HangupResume ==
    \E cid \in DOMAIN launches, o \in {"success", "unsuccessful"} : LaunchResume(cid, o)

HangupWebhook == \E form \in AllHangupForms : PlivoHangup(form)

NextHangup == HangupUpload \/ HangupLaunch \/ HangupResume \/ HangupWebhook

SpecHangup == Init /\ [][NextHangup]_vars

\* ------------------------------------------------ transcript specification
\* build_transcript_text applied to every transcript of up to MaxTurns turns:
\* agent, customer and role-less turns, messages absent, empty, plain and
\* with a line break, times absent, under a minute, over a minute and over
\* an hour and forty minutes.
Roles == {<<"agent">>, <<"user">>, None}
Messages == {None, <<>>, <<"h", "i">>, <<"a", Newline, "b">>}
Times == {NULL, 5, 75, 6001}
Turns == [role : Roles, message : Messages, time_in_call_secs : Times]
Transcripts == UNION {[1..n -> Turns] : n \in 0..MaxTurns}

InitTranscript ==
    /\ users = [u \in UserIds |-> [voice_api_key |-> TRUE]]
    /\ campaigns = <<>>
    /\ conversations = <<>>
    /\ nextCampaignId = 1
    /\ nextConversationId = 1
    /\ clock = 0
    /\ launches = <<>>
    /\ providerRequests = <<>>
    /\ nextProviderId = 1
    /\ active_connections = <<>>
    /\ user_connections = <<>>
    /\ handlers = <<>>
    /\ \E transcript \in Transcripts : last = [op |-> "transcript", transcript |-> transcript]

BuildTranscript ==
    /\ last.op = "transcript"
    /\ last' = [op |-> "build_transcript_text", transcript |-> last.transcript,
                text |-> BuildTranscriptText(last.transcript)]
    /\ UNCHANGED <<registry, users, campaigns, conversations, nextCampaignId, nextConversationId,
                   clock, launches, providerRequests, nextProviderId>>

NextTranscript == BuildTranscript

SpecTranscript == InitTranscript /\ [][NextTranscript]_vars

\* ------------------------------------------------------------ claims C1, C2
\* The rows of an upload whose phone_number, as text and trimmed, satisfies P.
RowsWhere(rows, P(_)) == {i \in 1..Len(rows) : P(Strip(PyStr(rows[i].phone_number)))}

NonEmptyText(p) == p # <<>>
NonEmptyNotNan(p) == p # <<>> /\ p # Nan
TooLong(p) == p # Nan /\ Len(p) > PhoneColumnLen

\* The upload of the last request passed every validation step.
ValidUpload ==
    /\ last.op = "create"
    /\ last.file.csv_suffix /\ last.file.decodable
    /\ HasColumn(last.file, "phone_number")
    /\ last.agent_id \in AgentIds /\ agents[last.agent_id].user_id = last.user

\* The campaign created by the last request holds exactly k conversations,
\* all pending, and counts k contacts.
CreatedExactly(k) ==
    /\ last.campaign_id \in DOMAIN campaigns
    /\ campaigns[last.campaign_id].total_contacts = k
    /\ Cardinality(ConversationsOf(last.campaign_id)) = k
    /\ \A i \in ConversationsOf(last.campaign_id) :
          /\ conversations[i].status = "pending"
          /\ conversations[i].user_id = last.user
          /\ conversations[i].agent_id = last.agent_id

RejectedUpload(req) ==
    \/ ~req.file.csv_suffix
    \/ ~(req.agent_id \in AgentIds /\ agents[req.agent_id].user_id = req.user)
    \/ ~HasColumn(req.file, "phone_number")

C2_RejectedUploadCreatesNothing ==
    [][(last'.op = "create" /\ RejectedUpload(last'))
          => (campaigns' = campaigns /\ conversations' = conversations)]_vars

\* C2 witness: a store that holds a campaign has just rejected an upload for
\* its missing phone_number column.
C2_Witness ==
    /\ last.op = "create" /\ last.result = "error_no_phone_column"
    /\ ~HasColumn(last.file, "phone_number")
    /\ DOMAIN campaigns # {}

\* ------------------------------------------------------------ claims C3, C4
Range(q) == {q[i] : i \in DOMAIN q}

\* The launch request of the last step has returned its 200.
LaunchFinished == last.op = "launch_resume" /\ last.result = "200"

\* The answer the provider gave to the call-initiation request of c.
ProviderAnswer(c) ==
    IF RequestsFor(c) = <<>> THEN "none" ELSE RequestsFor(c)[Len(RequestsFor(c))]

SucceededAtProvider(cid) == {c \in ConversationsOf(cid) : ProviderAnswer(c) = "success"}
FailedAtProvider(cid) ==
    {c \in ConversationsOf(cid) : ProviderAnswer(c) \in {"unsuccessful", "exception"}}

\* C3: after launch_campaign finishes on a campaign of which p conversations
\* succeeded and f failed at the provider, completed_calls = p+f,
\* successful_calls = p, failed_calls = f, and the status is completed if
\* p+f >= total_contacts and running otherwise.
C3_CountersAndStatusAfterLaunch ==
    LaunchFinished =>
        LET camp == campaigns[last.campaign_id]
            p == Cardinality(SucceededAtProvider(last.campaign_id))
            f == Cardinality(FailedAtProvider(last.campaign_id))
        IN  /\ camp.completed_calls = p + f
            /\ camp.successful_calls = p
            /\ camp.failed_calls = f
            /\ camp.status = IF p + f >= camp.total_contacts THEN "completed" ELSE "running"

\* C4: once launch_campaign has finished, no conversation of the campaign is
\* still pending, whatever the number of contacts.
C4_NoPendingAfterLaunch ==
    LaunchFinished => PendingOf(last.campaign_id) = {}

\* ------------------------------------------------------------ claims C5, C6
\* C5: a provider failure (an unsuccessful result or a raised exception)
\* never stops the batch: the failed conversation is recorded as failed, and
\* when the launch has finished every selected conversation has received its
\* own call-initiation request and its answer.
C5_FailureDoesNotStopBatch ==
    /\ (last.op = "launch_resume" /\ last.outcome # "success")
           => conversations[last.conversation_id].status = "failed"
    /\ LaunchFinished
           => \A c \in Range(last.selected) :
                  /\ Len(RequestsFor(c)) = 1
                  /\ ProviderAnswer(c) \in Outcomes
                  /\ ProviderAnswer(c) # "success" => conversations[c].status = "failed"

\* A finished launch of two conversations whose first call raised and whose
\* second call succeeded.
C5_Witness ==
    /\ LaunchFinished
    /\ Len(last.selected) = 2
    /\ ProviderAnswer(last.selected[1]) = "exception"
    /\ ProviderAnswer(last.selected[2]) = "success"
    /\ conversations[last.selected[1]].status = "failed"
    /\ conversations[last.selected[2]].status = "in_progress"

\* The preconditions of a launch, as the interface states them.
LaunchPreconditionViolated(u, cid) ==
    \/ cid \notin DOMAIN campaigns
    \/ campaigns[cid].user_id # u
    \/ campaigns[cid].status # "pending"
    \/ ~users[u].voice_api_key
    \/ campaigns[cid].agent_id \notin AgentIds
    \/ agents[campaigns[cid].agent_id].external_agent_id = NULL
    \/ \A c \in ConversationsOf(cid) : conversations[c].status # "pending"

LaunchErrors ==
    {"404_not_found", "400_not_pending", "400_no_api_key", "400_agent_not_linked",
     "400_no_contacts"}

\* C6: a launch request that violates a precondition is rejected with an
\* error, issues no provider call and leaves every Campaign and Conversation
\* row unchanged.
C6_RejectedLaunchChangesNothing ==
    [][(last'.op = "launch" /\ LaunchPreconditionViolated(last'.user, last'.campaign_id))
           => /\ last'.result \in LaunchErrors
              /\ providerRequests' = providerRequests
              /\ launches' = launches
              /\ campaigns' = campaigns
              /\ conversations' = conversations]_vars

\* A launch of the caller's own pending campaign that has no contact was
\* rejected.
C6_Witness ==
    /\ last.op = "launch"
    /\ last.result = "400_no_contacts"
    /\ campaigns[last.campaign_id].status = "pending"
    /\ campaigns[last.campaign_id].user_id = last.user

\* ----------------------------------------------------------------- claim C7
\* The conversations on which dispatch stored the provider conversation id.
DispatchedAs(provider_id) ==
    {i \in DOMAIN conversations : conversations[i].external_conversation_id = provider_id}

\* C7: when a completion webhook carries the provider conversation id that
\* dispatch stored on a Conversation, exactly that Conversation is updated:
\* status completed for the verdict "success" and failed otherwise, and
\* duration_seconds the reported duration; no other Conversation changes.
C7_CompletionUpdatesExactMatch ==
    [][(/\ last'.op = "completion"
        /\ last'.request.signature_header
        /\ last'.request.json
        /\ last'.request.type = "post_call_transcription"
        /\ DispatchedAs(last'.request.data.conversation_id) # {})
           => \E i \in DispatchedAs(last'.request.data.conversation_id) :
                 /\ conversations'[i].status =
                        (IF last'.request.data.call_successful = "success"
                         THEN "completed" ELSE "failed")
                 /\ conversations'[i].duration_seconds =
                        last'.request.data.call_duration_secs
                 /\ \A j \in DOMAIN conversations \ {i} :
                        conversations'[j] = conversations[j]]_vars

\* ----------------------------------------------------------------- claim C8
\* text.split("\n") of a non-empty text; the empty text has no line.
RECURSIVE SplitLines(_)
SplitLines(text) ==
    IF \A i \in 1..Len(text) : text[i] # Newline THEN <<text>>
    ELSE LET k == CHOOSE i \in 1..Len(text) :
                      text[i] = Newline /\ \A j \in 1..(i - 1) : text[j] # Newline
         IN  <<SubSeq(text, 1, k - 1)>> \o SplitLines(SubSeq(text, k + 1, Len(text)))

LinesOf(text) == IF text = <<>> THEN <<>> ELSE SplitLines(text)

AllDigits(t) == \A i \in 1..Len(t) : IsDigit(t[i])

\* The line reads "[mm:ss] Speaker: message" for the turn: mm the decimal
\* numeral of time div 60 and ss of time mod 60, each zero-padded to two
\* digits, Speaker "Agent" for the role agent and "Customer" otherwise.
LineReadsAs(line, turn) ==
    LET time == IF turn.time_in_call_secs = NULL THEN 0 ELSE turn.time_in_call_secs
        message == IF turn.message = None THEN <<>> ELSE turn.message
        label == IF turn.role = <<"agent">> THEN AgentLabel ELSE CustomerLabel
    IN  /\ Len(line) >= 8
        /\ line[1] = "["
        /\ \E k \in 4..(Len(line) - 4) :
              LET mm == SubSeq(line, 2, k - 1)
                  ss == SubSeq(line, k + 1, k + 2)
              IN  /\ line[k] = ":"
                  /\ AllDigits(mm) /\ Len(mm) >= 2 /\ (Len(mm) > 2 => mm[1] # "0")
                  /\ DigitsValue(mm) = time \div 60
                  /\ AllDigits(ss)
                  /\ DigitsValue(ss) = time % 60
                  /\ SubSeq(line, k + 3, Len(line)) = <<"]", " ">> \o label \o <<":", " ">> \o message

HasLineBreak(turn) ==
    turn.message # None /\ \E i \in 1..Len(turn.message) : turn.message[i] = Newline

RendersLineByLine(transcript, text) ==
    /\ Len(LinesOf(text)) = Len(transcript)
    /\ \A i \in 1..Len(transcript) : LineReadsAs(LinesOf(text)[i], transcript[i])

\* C8 as stated: build_transcript_text renders every transcript of n turns
\* as exactly n lines in turn order, the i-th reading "[mm:ss] Speaker:
\* message"; the empty transcript renders as the empty string.
C8_Original_EveryTranscriptLineByLine ==
    last.op = "build_transcript_text" => RendersLineByLine(last.transcript, last.text)

\* C8: build_transcript_text renders a transcript of n turns none of whose
\* messages contains a line break as exactly n lines in turn order, the i-th
\* reading "[mm:ss] Speaker: message"; in every case the text is the turns'
\* renderings joined by single line breaks, and the empty transcript renders
\* as the empty string.
C8_LineByLineWithoutLineBreaks ==
    last.op = "build_transcript_text" =>
        /\ (\A i \in 1..Len(last.transcript) : ~HasLineBreak(last.transcript[i]))
               => RendersLineByLine(last.transcript, last.text)
        /\ last.transcript = <<>> => last.text = <<>>
        /\ Len(last.transcript) = 1 => LineReadsAs(last.text, last.transcript[1])

\* "[01:15] Agent: hi" then "[00:05] Customer: " rendered from an agent turn
\* at 75 s and a role-less turn at 5 s without a message.
C8_Witness ==
    /\ last.op = "build_transcript_text"
    /\ last.transcript =
           <<[role |-> <<"agent">>, message |-> <<"h", "i">>, time_in_call_secs |-> 75],
             [role |-> None, message |-> None, time_in_call_secs |-> 5]>>
    /\ last.text = <<"[", "0", "1", ":", "1", "5", "]", " ", "A", "g", "e", "n", "t", ":", " ",
                     "h", "i", Newline,
                     "[", "0", "0", ":", "0", "5", "]", " ", "C", "u", "s", "t", "o", "m", "e",
                     "r", ":", " ">>

\* ------------------------------------------------------------ claims C9, C10
\* C9: when a hangup webhook matches no Conversation by external call id but
\* its To number is the phone_number of at least one Conversation in status
\* in_progress, connected or initiating, the most recently created such
\* Conversation, and only that one, is finalized.
C9_FallbackFinalizesMostRecent ==
    [][(/\ last'.op = "hangup"
        /\ Truthy(last'.form.To)
        /\ HangupCandidates(last'.form.To) # {})
           => \E c \in HangupCandidates(last'.form.To) :
                 /\ \A j \in HangupCandidates(last'.form.To) :
                        conversations[j].created_at <= conversations[c].created_at
                 /\ conversations'[c].status \in {"completed", "failed"}
                 /\ conversations'[c].duration_seconds # NULL
                 /\ \A j \in DOMAIN conversations \ {c} :
                        conversations'[j] = conversations[j]]_vars

\* The cause and the duration text the handler works with: the form's
\* fields, NORMAL_CLEARING and "0" standing in for absent ones.
CauseOf(form) == IF form.HangupCause = None THEN NormalClearing ELSE form.HangupCause
DurationOf(form) == IF form.Duration = None THEN <<"0">> ELSE form.Duration

\* C10: on a matched hangup webhook the Conversation's status is completed
\* if the cause is NORMAL_CLEARING or USER_BUSY and failed for every other
\* cause, and duration_seconds is the integer value of Duration, or 0 when
\* Duration does not parse as an integer.
C10_MatchedHangupClassified ==
    (last.op = "hangup" /\ last.conversation_id # NULL) =>
        LET row == conversations[last.conversation_id]
        IN  /\ CauseOf(last.form) \in {NormalClearing, UserBusy} => row.status = "completed"
            /\ CauseOf(last.form) \notin {NormalClearing, UserBusy} => row.status = "failed"
            /\ PyIntParses(DurationOf(last.form)) =>
                   row.duration_seconds = PyInt(DurationOf(last.form))
            /\ ~PyIntParses(DurationOf(last.form)) => row.duration_seconds = 0

\* A busy hangup of 42 seconds matched a conversation.
C10_Witness ==
    /\ last.op = "hangup"
    /\ last.conversation_id # NULL
    /\ last.form.HangupCause = UserBusy
    /\ last.form.Duration = <<" ", "4", "2">>
    /\ conversations[last.conversation_id].status = "completed"
    /\ conversations[last.conversation_id].duration_seconds = 42

\* ---------------------------------------------------------------- claim C11
\* The hangup form finds no conversation: none by call id (no conversation
\* carries one) and none open to its To number.
HangupMiss(form) ==
    ~Truthy(form.To)
    \/ \A i \in DOMAIN conversations :
           ~(conversations[i].phone_number = form.To
             /\ conversations[i].status \in {"in_progress", "connected", "initiating"})

\* The completion event finds no conversation: none dispatched under its
\* provider conversation id and none open for its agent.
CompletionMiss(req) ==
    /\ req.signature_header /\ req.json /\ req.type = "post_call_transcription"
    /\ DispatchedAs(req.data.conversation_id) = {}
    /\ \A i \in DOMAIN conversations :
           ~(agents[conversations[i].agent_id].external_agent_id = req.data.agent_id
             /\ conversations[i].status \in {"in_progress", "connected"})

\* C11: a completion or hangup webhook that finds no Conversation by exact
\* id and none by its fallback rule modifies no Conversation or Campaign
\* row, is answered without an exception escaping, and leaves nothing
\* behind from which it could be applied later.
C11_MissChangesNothing ==
    [][((last'.op = "hangup" /\ HangupMiss(last'.form))
        \/ (last'.op = "completion" /\ CompletionMiss(last'.request)))
           => /\ conversations' = conversations
              /\ campaigns' = campaigns
              /\ UNCHANGED <<users, launches, providerRequests, nextCampaignId,
                             nextConversationId, nextProviderId, clock>>
              /\ last'.result \in {"success", "error", "200"}
              /\ last'.conversation_id = NULL]_vars

\* A hangup without CallUUID to a number whose only conversation has already
\* failed was answered with success and matched nothing.
C11_Witness ==
    /\ last.op = "hangup"
    /\ last.form.CallUUID = None
    /\ last.result = "success"
    /\ last.conversation_id = NULL
    /\ \E i \in DOMAIN conversations :
           /\ conversations[i].phone_number = last.form.To
           /\ conversations[i].status = "failed"
    /\ HangupMiss(last.form)

\* ---------------------------------------------------------------- claim C12
\* The conversations a hangup webhook has already finalized: only the hangup
\* handler writes duration_seconds here.
FinalizedByHangup == {i \in DOMAIN conversations : conversations[i].duration_seconds # NULL}

\* C12: last writer wins between the two webhook paths: a completion webhook
\* delivered for a call whose Conversation a hangup webhook has already
\* finalized overwrites that Conversation's status and duration_seconds with
\* its own verdict and duration.
C12_SecondWebhookOverwrites ==
    [][(/\ last'.op = "completion"
        /\ last'.request.signature_header
        /\ last'.request.json
        /\ last'.request.type = "post_call_transcription"
        /\ DispatchedAs(last'.request.data.conversation_id) \cap FinalizedByHangup # {})
           => \A i \in DispatchedAs(last'.request.data.conversation_id) :
                 /\ conversations'[i].status =
                        (IF last'.request.data.call_successful = "success"
                         THEN "completed" ELSE "failed")
                 /\ conversations'[i].duration_seconds =
                        last'.request.data.call_duration_secs]_vars

\* ---------------------------------------------------------------- claim C13
\* C13: delivering the same completion webhook a second time leaves every
\* Conversation and Campaign row as the first delivery left it.
C13_RedeliveryChangesNothing ==
    [][(last'.op = "completion" /\ last'.delivery = 2)
           => (conversations' = conversations /\ campaigns' = campaigns)]_vars

\* A completion event for a dispatched conversation has been delivered twice.
C13_Witness ==
    /\ last.op = "completion"
    /\ last.delivery = 2
    /\ last.request.signature_header
    /\ last.request.json
    /\ last.request.type = "post_call_transcription"
    /\ DispatchedAs(last.request.data.conversation_id) # {}

\* ---------------------------------------------------------------- claim C15
ClientErrors == {"400", "401", "403", "422"}

\* C15: a completion webhook request without a valid signature, or whose
\* body is not JSON, is answered with a client error (4xx) and modifies no
\* Conversation or Campaign row.
C15_MalformedRequestRejected ==
    [][(last'.op = "completion"
        /\ (~last'.request.signature_header \/ ~last'.request.json))
           => /\ last'.result \in ClientErrors
              /\ conversations' = conversations
              /\ campaigns' = campaigns]_vars

\* ---------------------------------------------------- status specification
\* One campaign and the single calls of user 1, hangups without a CallUUID,
\* and the manual status update.
StatusForms ==
    [CallUUID : {None}, HangupCause : {NormalClearing, NoAnswer},
     Duration : {<<"4", "2">>}, To : {Phone5}]

StatusFiles ==
    [csv_suffix : {TRUE}, decodable : {TRUE}, fieldnames : {<<"phone_number">>},
     rows : RowsUpTo(1, {Phone5}, {None})]

StatusUpload ==
    \E file \in StatusFiles :
        /\ nextCampaignId = 1
        /\ CreateCampaignForm(1, 1, file)
        /\ nextConversationId' <= MaxConversations + 1

StatusLaunch == \E cid \in 1..MaxCampaigns : LaunchCampaign(1, cid)

StatusResume ==
    \E cid \in DOMAIN launches, o \in {"success", "unsuccessful"} : LaunchResume(cid, o)

StatusSingleCall ==
    \E a \in {1, 2, 3}, phone \in {Phone5, LongPhone} :
        /\ SingleCall(1, a, phone)
        /\ nextConversationId' <= MaxConversations + 1

StatusSingleResume ==
    \E c \in SingleCallsInFlight, o \in {"success", "unsuccessful"} : SingleCallResume(c, o)

StatusHangup == \E form \in StatusForms : PlivoHangup(form)

StatusUpdate ==
    \E u \in UserIds, c \in 1..MaxConversations,
       status \in {"in_progress", "completed", "failed"} :
        UpdateCallStatus(u, c, status)

NextStatus ==
    \/ StatusUpload \/ StatusLaunch \/ StatusResume \/ StatusSingleCall
    \/ StatusSingleResume \/ StatusHangup \/ StatusUpdate

SpecStatus == Init /\ [][NextStatus]_vars

\* ---------------------------------------------------------------- claim C14
TerminalStatuses == {"completed", "failed"}

\* C14: once a Conversation's status is completed or failed, no operation
\* (dispatch, the single-call endpoint resuming after its provider call, a
\* webhook handler, the manual status update) moves it to a status outside
\* {completed, failed}.
C14_TerminalStatusDoesNotRegress ==
    [][\A i \in DOMAIN conversations \cap DOMAIN conversations' :
           conversations[i].status \in TerminalStatuses
               => conversations'[i].status \in TerminalStatuses]_vars

\* -------------------------------------------------- scenario specification
\* One campaign of three contacts, its launch with every provider outcome,
\* and completion webhooks for the provider ids handed out.
ScenarioFile ==
    [csv_suffix |-> TRUE, decodable |-> TRUE, fieldnames |-> <<"phone_number">>,
     rows |-> <<[phone_number |-> Phone5, name |-> None],
                [phone_number |-> Phone7, name |-> None],
                [phone_number |-> Phone5, name |-> None]>>]

ScenarioUpload == nextCampaignId = 1 /\ CreateCampaignForm(1, 1, ScenarioFile)

ScenarioLaunch == LaunchCampaign(1, 1)

ScenarioResume == \E o \in Outcomes : LaunchResume(1, o)

ScenarioCompletion ==
    \E data \in CompletionData :
        ElevenLabsWebhook([signature_header |-> TRUE, json |-> TRUE,
                           type |-> "post_call_transcription", data |-> data])

NextScenario == ScenarioUpload \/ ScenarioLaunch \/ ScenarioResume \/ ScenarioCompletion

SpecScenario == Init /\ [][NextScenario]_vars

\* ---------------------------------------------------------------- claim C16
\* The campaign of three contacts has been launched, the provider accepted
\* the calls of contacts 1 and 2 and failed that of contact 3, and the last
\* request is a completion webhook for contact 1's provider id with verdict
\* "success" and duration 42.
ScenarioPlayed ==
    /\ last.op = "completion"
    /\ last.request.data.call_successful = "success"
    /\ last.request.data.call_duration_secs = 42
    /\ 1 \in DOMAIN campaigns
    /\ campaigns[1].total_contacts = 3
    /\ 1 \notin DOMAIN launches
    /\ ProviderAnswer(1) = "success"
    /\ ProviderAnswer(2) = "success"
    /\ ProviderAnswer(3) \in {"unsuccessful", "exception"}
    /\ last.request.data.conversation_id = conversations[1].external_conversation_id

\* C16: after the scenario the Campaign has completed_calls 3,
\* successful_calls 2, failed_calls 1 and status completed; contact 1's
\* Conversation is completed with duration_seconds 42, contact 2's is still
\* in_progress and contact 3's is failed.
C16_EndToEndScenario ==
    ScenarioPlayed =>
        /\ campaigns[1].completed_calls = 3
        /\ campaigns[1].successful_calls = 2
        /\ campaigns[1].failed_calls = 1
        /\ campaigns[1].status = "completed"
        /\ conversations[1].status = "completed"
        /\ conversations[1].duration_seconds = 42
        /\ conversations[2].status = "in_progress"
        /\ conversations[3].status = "failed"

\* -------------------------------------------------- deletion specification
\* Campaigns of user 1, their launch, hangups without a CallUUID, and the
\* deletion of conversations and campaigns by either user.
DeletionUpload ==
    \E file \in Files :
        /\ CreateCampaignForm(1, 1, file)
        /\ nextCampaignId' <= MaxCampaigns + 1
        /\ nextConversationId' <= MaxConversations + 1

DeletionLaunch == \E cid \in 1..MaxCampaigns : LaunchCampaign(1, cid)

DeletionResume ==
    \E cid \in DOMAIN launches, o \in {"success", "unsuccessful"} : LaunchResume(cid, o)

DeletionHangup == \E form \in StatusForms : PlivoHangup(form)

DeletionOfConversation ==
    \E u \in UserIds, c \in 1..MaxConversations : DeleteConversation(u, c)

DeletionOfCampaign == \E u \in UserIds, cid \in 1..MaxCampaigns : DeleteCampaign(u, cid)

NextDeletion ==
    \/ DeletionUpload \/ DeletionLaunch \/ DeletionResume \/ DeletionHangup
    \/ DeletionOfConversation \/ DeletionOfCampaign

SpecDeletion == Init /\ [][NextDeletion]_vars

\* ---------------------------------------------------------------- claim C17
\* C17: in every reachable state every Campaign has completed_calls =
\* successful_calls + failed_calls, and none of the three counters is
\* negative.
C17_CounterInvariant ==
    \A cid \in DOMAIN campaigns :
        /\ campaigns[cid].completed_calls =
               campaigns[cid].successful_calls + campaigns[cid].failed_calls
        /\ campaigns[cid].completed_calls >= 0
        /\ campaigns[cid].successful_calls >= 0
        /\ campaigns[cid].failed_calls >= 0

\* ---------------------------------------------------- tenant specification
\* Both users upload one-contact campaigns to the same number with their
\* own agent and launch them; Call names the conversation whose call the
\* hangup event reports, a field the handler does not read.
TenantFile ==
    [csv_suffix |-> TRUE, decodable |-> TRUE, fieldnames |-> <<"phone_number">>,
     rows |-> <<[phone_number |-> Phone5, name |-> None]>>]

TenantForms(c) ==
    [CallUUID : {None, <<"u">>}, HangupCause : {NormalClearing, NoAnswer},
     Duration : {<<"4", "2">>}, To : {conversations[c].phone_number}, Call : {c}]

TenantUpload ==
    \E u \in UserIds :
        /\ CreateCampaignForm(u, u, TenantFile)
        /\ nextCampaignId' <= MaxCampaigns + 1
        /\ nextConversationId' <= MaxConversations + 1

TenantLaunch == \E u \in UserIds, cid \in 1..MaxCampaigns : LaunchCampaign(u, cid)

TenantResume ==
    \E cid \in DOMAIN launches, o \in {"success", "unsuccessful"} : LaunchResume(cid, o)

TenantHangup ==
    \E c \in DOMAIN conversations :
        /\ conversations[c].status \in OpenStatuses
        /\ \E form \in TenantForms(c) : PlivoHangup(form)

NextTenant == TenantUpload \/ TenantLaunch \/ TenantResume \/ TenantHangup

SpecTenant == Init /\ [][NextTenant]_vars

\* ---------------------------------------------------------------- claim C18
\* C18: a webhook event generated by a call of one user never modifies a
\* Conversation of another user, even when both users have open
\* conversations to the same phone number; and a launch by a user changes
\* only that user's rows.
C18_TenantIsolationOnWrites ==
    [][/\ (last'.op = "hangup" /\ last'.conversation_id # NULL)
           => conversations[last'.conversation_id].user_id
                  = conversations[last'.form.Call].user_id
       /\ last'.op = "launch"
           => \A cid \in DOMAIN campaigns :
                  campaigns'[cid] # campaigns[cid] => campaigns[cid].user_id = last'.user]_vars

\* ------------------------------------------------ statistics specification
\* The aggregators applied to every table of up to MaxStatRows conversations:
\* user 1's in every status, with and without a campaign, created at time 1
\* or 2, and a completed single call of user 2.
StatRows ==
    {NewConversation(1, 1, cid, Phone5, None, status, t) :
         cid \in {NULL, 1}, status \in {"pending", "in_progress", "completed", "failed"},
         t \in {1, 2}}
    \cup {NewConversation(2, 2, NULL, Phone5, None, "completed", 1)}

StatTables == UNION {[1..n -> StatRows] : n \in 0..MaxStatRows}

InitStats ==
    /\ users = [u \in UserIds |-> [voice_api_key |-> TRUE]]
    /\ conversations \in StatTables
    /\ campaigns = <<[NewCampaign(1, 1) EXCEPT
                         !.total_contacts = Cardinality(ConversationsOf(1))]>>
    /\ nextCampaignId = 2
    /\ nextConversationId = Len(conversations) + 1
    /\ clock = 2
    /\ launches = <<>>
    /\ providerRequests = <<>>
    /\ nextProviderId = 1
    /\ active_connections = <<>>
    /\ user_connections = <<>>
    /\ handlers = <<>>
    /\ last = [op |-> "none"]

StatsReports ==
    \E u \in UserIds, range \in {<<1, 2>>, <<2, 2>>} : ReportsDashboard(u, range[1], range[2])

StatsSingleCalls == \E u \in UserIds : SingleCallStatistics(u)

NextStats == StatsReports \/ StatsSingleCalls

SpecStats == InitStats /\ [][NextStats]_vars

\* ---------------------------------------------------------------- claim C19
\* The total the answer reports, under either endpoint's name for it.
ReportedTotal ==
    IF last.op = "stats" THEN last.stats.total_calls ELSE last.stats.total_single_calls

\* The rows the answer is about.
ReportedOver ==
    {i \in DOMAIN conversations :
        /\ conversations[i].user_id = last.user
        /\ IF last.op = "stats"
           THEN conversations[i].created_at \in last.start_date..last.end_date
           ELSE conversations[i].campaign_id = NULL}

ReportedCountsDisjoint ==
    /\ ReportedTotal = Cardinality(ReportedOver)
    /\ last.stats.completed_calls
           = Cardinality({i \in ReportedOver : conversations[i].status = "completed"})
    /\ last.stats.failed_calls
           = Cardinality({i \in ReportedOver : conversations[i].status = "failed"})
    /\ last.op = "stats" =>
           /\ last.stats.in_progress_calls
                  = Cardinality({i \in ReportedOver : conversations[i].status = "in_progress"})
           /\ last.stats.completed_calls + last.stats.failed_calls
                  + last.stats.in_progress_calls <= last.stats.total_calls
    /\ last.stats.completed_calls + last.stats.failed_calls <= ReportedTotal

\* C19 as stated: the reported success rate (3333 standing for 33.33) is the
\* quotient completed / total, and 0 when the total is 0; the reported counts
\* are counts of disjoint subsets and their sum never exceeds the total.
C19_Original_RateIsQuotient ==
    last.op \in {"stats", "single_call_stats"} =>
        /\ ReportedTotal > 0 =>
               last.stats.success_rate * ReportedTotal = 100 * last.stats.completed_calls
        /\ ReportedTotal = 0 => last.stats.success_rate = 0
        /\ ReportedCountsDisjoint

\* C19: the reported success rate is the percentage 100 * completed / total
\* rounded to two decimals (3333 standing for 33.33), and 0 when the total
\* is 0; the reported counts are counts of disjoint subsets and their sum
\* never exceeds the total.
C19_RateIsRoundedPercentage ==
    last.op \in {"stats", "single_call_stats"} =>
        /\ ReportedTotal > 0 =>
               /\ 2 * (last.stats.success_rate * ReportedTotal
                       - 10000 * last.stats.completed_calls) <= ReportedTotal
               /\ 2 * (10000 * last.stats.completed_calls
                       - last.stats.success_rate * ReportedTotal) <= ReportedTotal
        /\ ReportedTotal = 0 => last.stats.success_rate = 0
        /\ ReportedCountsDisjoint

\* One of three conversations in the range is completed, one pending and one
\* failed: the rate reported is 33.33.
C19_Witness ==
    /\ last.op = "stats"
    /\ last.stats.total_calls = 3
    /\ last.stats.completed_calls = 1
    /\ last.stats.failed_calls = 1
    /\ last.stats.in_progress_calls = 0
    /\ last.stats.success_rate = 3333

\* ---------------------------------------------------------------- claim C20
\* C20: when launch_campaign has processed a conversation, that Conversation
\* is in_progress with the provider-returned identifier stored (provider
\* success) or failed with no provider identifier (provider failure), and no
\* other Conversation is written; when the launch has finished,
\* successful_calls is the number of selected conversations it moved to
\* in_progress and failed_calls the number it moved to failed.
C20_DispatchOutcomePerConversation ==
    [][(last'.op = "launch_resume" /\ last'.result # "500")
           => LET c == last'.conversation_id
                  camp == campaigns'[last'.campaign_id]
                  moved == {j \in Range(last'.selected) :
                               conversations'[j].external_conversation_id # NULL}
                  failed == {j \in Range(last'.selected) :
                                conversations'[j].external_conversation_id = NULL}
              IN  /\ conversations[c].status = "pending"
                  /\ last'.outcome = "success"
                         => /\ conversations'[c].status = "in_progress"
                            /\ conversations'[c].external_conversation_id = nextProviderId
                            /\ conversations'[c].external_conversation_id # NULL
                  /\ last'.outcome # "success"
                         => /\ conversations'[c].status = "failed"
                            /\ conversations'[c].external_conversation_id = NULL
                  /\ \A j \in DOMAIN conversations \ {c} : conversations'[j] = conversations[j]
                  /\ last'.result = "200"
                         => /\ camp.successful_calls = Cardinality(moved)
                            /\ camp.failed_calls = Cardinality(failed)
                            /\ \A j \in failed : conversations'[j].status = "failed"]_vars

\* A finished launch of two conversations: one in_progress under a provider
\* identifier, the other failed without one, counted 1 and 1.
C20_Witness ==
    /\ LaunchFinished
    /\ Len(last.selected) = 2
    /\ \E a, b \in Range(last.selected) :
           /\ conversations[a].status = "in_progress"
           /\ conversations[a].external_conversation_id # NULL
           /\ conversations[b].status = "failed"
           /\ conversations[b].external_conversation_id = NULL
    /\ campaigns[last.campaign_id].successful_calls = 1
    /\ campaigns[last.campaign_id].failed_calls = 1

\* ------------------------------------------------ interruption specification
\* Uploads of one contact more than MaxRows, launches, the provider's answers
\* and the death of a launch request between two of them.
InterruptFile ==
    [csv_suffix |-> TRUE, decodable |-> TRUE, fieldnames |-> <<"phone_number">>,
     rows |-> [i \in 1..(MaxRows + 1) |-> [phone_number |-> Phone5, name |-> None]]]

InterruptUpload ==
    /\ CreateCampaignForm(1, 1, InterruptFile)
    /\ nextCampaignId' <= MaxCampaigns + 1

InterruptLaunch == \E cid \in 1..MaxCampaigns : LaunchCampaign(1, cid)

InterruptResume == \E cid \in DOMAIN launches, o \in Outcomes : LaunchResume(cid, o)

InterruptDeath == \E cid \in DOMAIN launches : LaunchInterrupted(cid)

NextInterrupt == InterruptUpload \/ InterruptLaunch \/ InterruptResume \/ InterruptDeath

SpecInterrupt == Init /\ [][NextInterrupt]_vars

\* ---------------------------------------------------------------- claim C21
\* A campaign whose launch request died: running, with no request in flight.
Interrupted(cid) ==
    /\ cid \in DOMAIN campaigns
    /\ campaigns[cid].status = "running"
    /\ cid \notin DOMAIN launches

\* C21: when the launch request dies after processing i of its conversations,
\* those i keep the outcome committed for them (in_progress or failed), the
\* other selected conversations are pending, and the campaign is running with
\* its counters as they were before the launch; from then on every launch of
\* that campaign is refused for not being pending and no step changes the
\* campaign or any of its conversations.
C21_InterruptedDispatch ==
    [][/\ last'.op = "launch_interrupted"
           => LET cid == last'.campaign_id
                  sel == last'.selected
              IN  /\ conversations' = conversations
                  /\ campaigns' = campaigns
                  /\ campaigns'[cid].status = "running"
                  /\ campaigns'[cid].completed_calls = 0
                  /\ campaigns'[cid].successful_calls = 0
                  /\ campaigns'[cid].failed_calls = 0
                  /\ \A i \in 1..Len(sel) :
                         IF i <= last'.processed
                         THEN conversations'[sel[i]].status \in {"in_progress", "failed"}
                         ELSE conversations'[sel[i]].status = "pending"
       /\ \A cid \in DOMAIN campaigns :
              Interrupted(cid)
                  => /\ campaigns'[cid] = campaigns[cid]
                     /\ cid \notin DOMAIN launches'
                     /\ \A c \in ConversationsOf(cid) :
                            /\ c \in DOMAIN conversations'
                            /\ conversations'[c] = conversations[c]
                            /\ RequestsFor(c)' = RequestsFor(c)
                     /\ (last'.op = "launch" /\ last'.campaign_id = cid)
                            => last'.result \in {"404_not_found", "400_not_pending"}]_vars

\* A launch that died after one accepted and one failed call, with the third
\* conversation still pending, has been launched again and refused.
C21_Witness ==
    /\ last.op = "launch"
    /\ last.result = "400_not_pending"
    /\ Interrupted(last.campaign_id)
    /\ \E a, b, c \in ConversationsOf(last.campaign_id) :
           /\ conversations[a].status = "in_progress"
           /\ conversations[b].status = "failed"
           /\ conversations[c].status = "pending"

\* ---------------------------------------------------------------- claim C22
\* C22: when a completion webhook carries a conversation id that dispatch
\* stored on no Conversation, and some Conversation of an agent with the
\* payload's external agent id is in_progress or connected, the handler
\* finalizes the most recently created of those, records the payload's
\* conversation id on it and changes no other Conversation.
C22_CompletionFallbackFinalizesMostRecent ==
    [][(/\ last'.op = "completion"
        /\ last'.request.signature_header
        /\ last'.request.json
        /\ last'.request.type = "post_call_transcription"
        /\ DispatchedAs(last'.request.data.conversation_id) = {}
        /\ CompletionCandidates(last'.request.data.agent_id) # {})
           => \E i \in MostRecent(CompletionCandidates(last'.request.data.agent_id)) :
                 /\ conversations'[i].status =
                        CompletionStatus(last'.request.data.call_successful)
                 /\ conversations'[i].external_conversation_id =
                        last'.request.data.conversation_id
                 /\ \A j \in DOMAIN conversations \ {i} :
                        conversations'[j] = conversations[j]]_vars

\* ---------------------------------------------------------------- claim C23
\* The webhook steps in which matching a Conversation raises: a completion
\* event that reaches handle_call_completion, a hangup that carries a CallUUID.
CompletionRaises(req) ==
    /\ req.signature_header
    /\ req.json
    /\ req.type = "post_call_transcription"
    /\ QueryRaises(CompletionLookup)

HangupRaises(form) == Truthy(form.CallUUID) /\ QueryRaises("external_call_id")

\* What a caller reads as success: the completion webhook's 200 with
\* {"status": "success"}, the hangup webhook's {"status": "success"}.
ReportsSuccess == {"200", "success"}

\* C23: when matching or updating a Conversation raises inside a webhook
\* handler, the answer to the caller is a failure, never a success, and no
\* Conversation committed before is changed back.
C23_ExceptionReportedAsFailure ==
    [][/\ (last'.op = "completion" /\ CompletionRaises(last'.request))
              => /\ last'.result \notin ReportsSuccess
                 /\ conversations' = conversations
       /\ (last'.op = "hangup" /\ HangupRaises(last'.form))
              => /\ last'.result \notin ReportsSuccess
                 /\ conversations' = conversations]_vars

\* ---------------------------------------------------------------- claim C24
\* The campaigns that were created and exist no longer.
DeletedCampaigns == (1..(nextCampaignId - 1)) \ DOMAIN campaigns

\* C24: a successful delete_campaign removes the Campaign and every
\* Conversation whose campaign_id is its id; from then on the campaign does not
\* come back and no Conversation with its campaign_id exists, whatever
\* arrives later: a launch of its id is answered 404, and the provider's
\* answer to a launch that was under way ends that request without a write.
C24_DeletedCampaignStaysDeleted ==
    [][/\ (last'.op = "delete_campaign" /\ last'.result = "200")
              => /\ last'.campaign_id \in DOMAIN campaigns
                 /\ last'.campaign_id \notin DOMAIN campaigns'
                 /\ \A c \in DOMAIN conversations' :
                        conversations'[c].campaign_id # last'.campaign_id
                 /\ \A c \in DOMAIN conversations \ ConversationsOf(last'.campaign_id) :
                        c \in DOMAIN conversations' /\ conversations'[c] = conversations[c]
       /\ DeletedCampaigns \subseteq DeletedCampaigns'
       /\ \A cid \in DeletedCampaigns' : ConversationsOf(cid)' = {}
       /\ \A c \in DOMAIN conversations' :
              conversations'[c].campaign_id \in DOMAIN campaigns' \cup {NULL}
       /\ (last'.op = "launch" /\ last'.campaign_id \in DeletedCampaigns)
              => last'.result = "404_not_found" /\ conversations' = conversations
       /\ (last'.op = "launch_resume" /\ last'.campaign_id \in DeletedCampaigns)
              => /\ last'.result = "500"
                 /\ conversations' = conversations
                 /\ campaigns' = campaigns]_vars

\* A campaign was deleted while its launch awaited the provider, and the
\* provider's answer has arrived since.
C24_Witness ==
    /\ last.op = "launch_resume"
    /\ last.campaign_id \in DeletedCampaigns
    /\ last.outcome = "success"
    /\ conversations # <<>>

\* --------------------------------------------------- sockets specification
\* Websockets opened for either user, the rounds of their update loops and
\* the ways those end.
WebSockets == 1..MaxSockets

SocketOpen == \E ws \in WebSockets, u \in UserIds, accepted \in BOOLEAN :
                  WebsocketEndpoint(ws, u, accepted)

SocketRound == \E ws \in WebSockets, outcome \in LoopOutcomes : WebsocketUpdate(ws, outcome)

NextSockets == SocketOpen \/ SocketRound

SpecSockets == Init /\ [][NextSockets]_vars

\* ---------------------------------------------------------------- claim C25
\* The websockets a list holds.
Members(q) == {q[i] : i \in 1..Len(q)}

Registered(ws) ==
    \/ ws \in Members(active_connections)
    \/ \E u \in DOMAIN user_connections : ws \in Members(user_connections[u])

\* C25: a websocket whose handler has ended, by a client disconnect or by any
\* other error in the update loop, is in neither active_connections nor
\* user_connections.
C25_EndedHandlerDeregistered ==
    \A ws \in DOMAIN handlers : handlers[ws].pc = "ended" => ~Registered(ws)

\* ---------------------------------------------------------------- claim C26
\* C26: whatever launch requests arrive for a campaign, one after another or
\* while an earlier one awaits the provider, no Conversation is the subject
\* of more than one call-initiation request, and a campaign that has left
\* pending never returns to it.
C26_AtMostOnceDispatch ==
    [][/\ \A c \in DOMAIN providerRequests' : Len(providerRequests'[c]) <= 1
       /\ \A cid \in DOMAIN campaigns \cap DOMAIN campaigns' :
              campaigns[cid].status # "pending" => campaigns'[cid].status # "pending"
       /\ (last'.op = "launch" /\ last'.campaign_id \in DOMAIN launches)
              => /\ last'.result \in {"404_not_found", "400_not_pending"}
                 /\ providerRequests' = providerRequests]_vars

\* A second launch arrived while the first awaited the provider's answer for
\* a conversation, and was refused.
C26_Witness ==
    /\ last.op = "launch"
    /\ last.result = "400_not_pending"
    /\ last.campaign_id \in DOMAIN launches
    /\ \E c \in DOMAIN providerRequests :
           /\ conversations[c].campaign_id = last.campaign_id
           /\ providerRequests[c] = <<"in_flight">>

C28_WebhooksLeaveCampaignsUntouched ==
    [][/\ last'.op \in {"completion", "hangup"} => campaigns' = campaigns
       /\ \A cid \in DOMAIN campaigns' :
              campaigns'[cid].status = "completed"
                  => campaigns'[cid].successful_calls =
                         Cardinality({c \in DOMAIN conversations' :
                                         /\ conversations'[c].campaign_id = cid
                                         /\ conversations'[c].external_conversation_id # NULL})]_vars

\* A hangup has made failed a conversation whose call the provider had
\* accepted, in a campaign that still counts it in successful_calls.
C28_Witness ==
    /\ last.op = "hangup"
    /\ last.conversation_id # NULL
    /\ conversations[last.conversation_id].status = "failed"
    /\ conversations[last.conversation_id].external_conversation_id # NULL
    /\ LET camp == campaigns[conversations[last.conversation_id].campaign_id]
       IN  /\ camp.status = "completed"
           /\ camp.successful_calls = camp.total_contacts
           /\ camp.failed_calls = 0

\* ------------------------------------------------------ fair specification
\* The full specification in which a launch that awaits the provider is
\* eventually answered; webhooks and requests arrive or not as they please.
SpecFair == Spec /\ WF_vars(Resume)

\* ---------------------------------------------------------------- claim C29
\* A terminal event for the accepted call of conversation c was just
\* delivered: the completion event carrying the provider id stored on c, or
\* a hangup for the number c was dialled at.
TerminalEventDelivered(c) ==
    /\ c \in DOMAIN conversations
    /\ conversations[c].external_conversation_id # NULL
    /\ \/ /\ last.op = "completion"
          /\ last.request.signature_header
          /\ last.request.json
          /\ last.request.type = "post_call_transcription"
          /\ last.request.data.conversation_id = conversations[c].external_conversation_id
       \/ /\ last.op = "hangup"
          /\ last.form.To = conversations[c].phone_number

\* C29: once a terminal event for a call the provider accepted has been
\* delivered, the Conversation of that call eventually has status completed
\* or failed.
C29_AcceptedCallEventuallyFinalized ==
    \A c \in 1..MaxConversations :
        TerminalEventDelivered(c)
            ~> (c \in DOMAIN conversations /\ conversations[c].status \in TerminalStatuses)

\* ---------------------------------------------------------------- claim C30
\* How many times a list holds x.
Occurrences(q, x) == Cardinality({i \in 1..Len(q) : q[i] = x})

\* C30: after any connects and matching disconnects, a websocket is in
\* active_connections exactly when it is in the list user_connections keeps
\* for the user it connected with, it is in no other user's list, it is at
\* most once in each, a disconnected websocket is in neither, and no key of
\* user_connections maps to an empty list.
C30_RegistryConsistent ==
    /\ \A ws \in WebSockets :
           /\ Occurrences(active_connections, ws) <= 1
           /\ \A u \in DOMAIN user_connections :
                  /\ Occurrences(user_connections[u], ws) <= 1
                  /\ ws \in Members(user_connections[u])
                         => ws \in DOMAIN handlers /\ handlers[ws].user_id = u
           /\ ws \in Members(active_connections)
                  <=> \E u \in DOMAIN user_connections : ws \in Members(user_connections[u])
    /\ \A u \in DOMAIN user_connections : user_connections[u] # <<>>
    /\ (last.op = "ws_update" /\ last.result = "WebSocketDisconnect")
           => ~Registered(last.websocket)

\* The only websocket of a user has been disconnected, which removed the
\* user's key, while the two websockets of the other user stay registered.
C30_Witness ==
    /\ last.op = "ws_update"
    /\ last.result = "WebSocketDisconnect"
    /\ last.user \notin DOMAIN user_connections
    /\ \E u \in DOMAIN user_connections : Len(user_connections[u]) = 2
    /\ Len(active_connections) = 2

=============================================================================
